---------------------------- MODULE Spec2Model ----------------------------
(***************************************************************************)
(* Model of the HTML-to-Ricos converter (converter module, lines 81-1123   *)
(* of src/test.js) and of the POST /convert handler of src/src/index.js.   *)
(*                                                                         *)
(* A DOM node is a record, as the DOM supplier (jsdom) exposes it:         *)
(*   text node  [nodeType |-> 3, textContent |-> <<chars>>]                *)
(*   element    [nodeType |-> 1, tagName |-> "p", attrs |-> f,             *)
(*               childNodes |-> <<DOM nodes>>]                             *)
(* Strings the code inspects (text, numeric attributes) are sequences of   *)
(* one-character strings, so that trim(), concatenation and parseInt() are *)
(* computed and not assumed.  A style attribute is the sequence of its     *)
(* declarations, a class attribute the sequence of its class names.        *)
(* A Ricos node is a record with the field names of the output schema.     *)
(***************************************************************************)
EXTENDS Integers, Sequences, FiniteSets, TLC

VARIABLES
  pc,             \* "received": request in flight; "responded": handler returned
  req,            \* the request: [method, path, body]
  res,            \* sequence of the responses sent for req
  calls,          \* number of htmlToRicos invocations made for req
  nodes,          \* htmlToRicos: result of convertNodeToRicos(doc.body)
  enhancedNodes   \* htmlToRicos: sequence after the heading/collapse pass

vars == <<pc, req, res, calls, nodes, enhancedNodes>>

-----------------------------------------------------------------------------
(* Strings as character sequences                                          *)

WS == {" ", "\n", "\t"}

Digits == {"0", "1", "2", "3", "4", "5", "6", "7", "8", "9"}

DigitVal(c) ==
  CASE c = "0" -> 0 [] c = "1" -> 1 [] c = "2" -> 2 [] c = "3" -> 3
    [] c = "4" -> 4 [] c = "5" -> 5 [] c = "6" -> 6 [] c = "7" -> 7
    [] c = "8" -> 8 [] c = "9" -> 9

RECURSIVE TrimLeft(_)
TrimLeft(s) == IF s # <<>> /\ Head(s) \in WS THEN TrimLeft(Tail(s)) ELSE s

RECURSIVE TrimRight(_)
TrimRight(s) ==
  IF s # <<>> /\ s[Len(s)] \in WS THEN TrimRight(SubSeq(s, 1, Len(s) - 1)) ELSE s

\* String.prototype.trim
Trim(s) == TrimRight(TrimLeft(s))

\* the JS truthiness test `text && text.trim()` on a string
NonBlank(s) == s # <<>> /\ Trim(s) # <<>>

\* value of the leading run of digits of s, acc the value read so far
RECURSIVE DigitRun(_, _)
DigitRun(s, acc) ==
  IF s # <<>> /\ Head(s) \in Digits
    THEN DigitRun(Tail(s), 10 * acc + DigitVal(Head(s)))
    ELSE acc

\* parseInt(s) on the strings of the model (no sign, no radix prefix):
\* leading whitespace skipped, then the longest digit prefix; NaN if none.
\* The result is a record so that NaN and numbers compare without error.
ParseInt(s) ==
  LET t == TrimLeft(s)
  IN  IF t # <<>> /\ Head(t) \in Digits
        THEN [nan |-> FALSE, n |-> DigitRun(t, 0)]
        ELSE [nan |-> TRUE, n |-> 0]

-----------------------------------------------------------------------------
(* The DOM supplier's interface                                            *)

NoAttrs == [a \in {} |-> <<>>]

Txt(s) == [nodeType |-> 3, textContent |-> s]

El(tag, attrs, kids) ==
  [nodeType |-> 1, tagName |-> tag, attrs |-> attrs, childNodes |-> kids]

hasAttribute(e, a) == a \in DOMAIN e.attrs

\* getAttribute(a) || dflt   (null and "" are both falsy)
AttrOr(e, a, dflt) ==
  IF hasAttribute(e, a) /\ e.attrs[a] # <<>> THEN e.attrs[a] ELSE dflt

\* truthiness of getAttribute(a)
AttrTruthy(e, a) == hasAttribute(e, a) /\ e.attrs[a] # <<>>

\* Node.textContent: concatenation of the text of all descendants
RECURSIVE textContent(_)
RECURSIVE TextOfKids(_)
textContent(n) ==
  IF n.nodeType = 3 THEN n.textContent ELSE TextOfKids(n.childNodes)
TextOfKids(kids) ==
  IF kids = <<>> THEN <<>>
  ELSE textContent(Head(kids)) \o TextOfKids(Tail(kids))

\* Element.children: the element children only
children(e) == SelectSeq(e.childNodes, LAMBDA c : c.nodeType = 1)

\* Descendant elements of e with a tag of the set, in document order, each
\* paired with the tag of its parentElement
RECURSIVE Descendants(_, _)
RECURSIVE DescendantsOfKids(_, _, _)
Descendants(e, tags) == DescendantsOfKids(e.childNodes, e.tagName, tags)
DescendantsOfKids(kids, parentTag, tags) ==
  IF kids = <<>> THEN <<>>
  ELSE LET c == Head(kids)
       IN  (IF c.nodeType = 1
              THEN (IF c.tagName \in tags
                      THEN <<[el |-> c, parentTag |-> parentTag]>>
                      ELSE <<>>)
                   \o Descendants(c, tags)
              ELSE <<>>)
           \o DescendantsOfKids(Tail(kids), parentTag, tags)

\* Element.querySelectorAll for a selector that is a list of tag names
querySelectorAll(e, tags) ==
  LET d == Descendants(e, tags) IN [i \in 1..Len(d) |-> d[i].el]

-----------------------------------------------------------------------------
(* Style/Class Extractor                                                   *)

Letters ==
  {"a", "b", "c", "d", "e", "f", "g", "h", "i", "j", "k", "l", "m",
   "n", "o", "p", "q", "r", "s", "t", "u", "v", "w", "x", "y", "z"}

\* words of the style vocabulary, as character sequences
W_center  == <<"c", "e", "n", "t", "e", "r">>
W_right   == <<"r", "i", "g", "h", "t">>
W_justify == <<"j", "u", "s", "t", "i", "f", "y">>
W_bold    == <<"b", "o", "l", "d">>
W_normal  == <<"n", "o", "r", "m", "a", "l">>
W_red     == <<"r", "e", "d">>

\* one declaration `prop:val` of a style attribute; spaced is TRUE when it
\* is written `prop: val`, with exactly one space after the colon
Decl(prop, val, spaced) == [prop |-> prop, val |-> val, spaced |-> spaced]

StartsWith(s, w) == Len(s) >= Len(w) /\ SubSeq(s, 1, Len(w)) = w

RECURSIVE LetterRun(_)
LetterRun(s) ==
  IF s # <<>> /\ Head(s) \in Letters THEN <<Head(s)>> \o LetterRun(Tail(s))
  ELSE <<>>

NoStyle ==
  [isNull |-> TRUE, margin |-> FALSE, padding |-> FALSE, textAlignment |-> "",
   color |-> <<>>, fontSize |-> 0, fontWeight |-> 0]

\* processNodeStyle.  An undefined field of styleData is its falsy value
\* here ("" / <<>> / 0 / FALSE): the callers only test the fields for
\* truthiness.  A match is the sequence of the declarations that match,
\* the first being the one String.match returns.  The colour pattern is
\* modelled for named colours (a run of letters); style.includes(w) is a
\* test on the property names.
processNodeStyle(element) ==
  IF ~AttrTruthy(element, "style") THEN NoStyle
  ELSE
    LET style == element.attrs["style"]
        has(p) == \E i \in 1..Len(style) : style[i].prop = p
        align(w) == \E i \in 1..Len(style) :
                      /\ style[i].prop = "text-align"
                      /\ style[i].spaced
                      /\ StartsWith(style[i].val, w)
        colorMatch == SelectSeq(style, LAMBDA d :
                        d.prop \in {"color", "background-color"}
                        /\ LetterRun(d.val) # <<>>)
        fontSizeMatch == SelectSeq(style, LAMBDA d :
                        d.prop = "font-size" /\ d.val # <<>>
                        /\ Head(d.val) \in Digits)
        fontWeightMatch == SelectSeq(style, LAMBDA d :
                        d.prop = "font-weight" /\ d.val # <<>>
                        /\ (Head(d.val) \in Digits \/ StartsWith(d.val, W_bold)
                            \/ StartsWith(d.val, W_normal)))
    IN  [isNull |-> FALSE,
         margin |-> has("margin"),
         padding |-> has("padding"),
         textAlignment |->
           IF has("text-align")
             THEN (IF align(W_center) THEN "CENTER"
                   ELSE IF align(W_right) THEN "RIGHT"
                   ELSE IF align(W_justify) THEN "JUSTIFY"
                   ELSE "LEFT")
             ELSE "",
         color |-> IF colorMatch # <<>> THEN LetterRun(colorMatch[1].val)
                   ELSE <<>>,
         fontSize |-> IF fontSizeMatch # <<>>
                      THEN ParseInt(fontSizeMatch[1].val).n ELSE 0,
         fontWeight |->
           IF fontWeightMatch = <<>> THEN 0
           ELSE IF Head(fontWeightMatch[1].val) \in Digits
                  THEN ParseInt(fontWeightMatch[1].val).n
           ELSE IF StartsWith(fontWeightMatch[1].val, W_bold) THEN 700
           ELSE 400]

\* className.includes(w): the class names of the model that contain w
Including(w) ==
  CASE w = "section"   -> {"section", "subsection"}
    [] w = "container" -> {"container"}
    [] w = "highlight" -> {"highlight"}
    [] w = "important" -> {"important"}
    [] w = "center"    -> {"center", "text-center"}
    [] w = "right"     -> {"right", "text-right"}
    [] w = "justify"   -> {"justify", "text-justify"}
    [] OTHER           -> {w}

includes(className, w) ==
  \E i \in 1..Len(className) : className[i] \in Including(w)

NoClass == [isNull |-> TRUE, highlight |-> FALSE, textAlignment |-> "",
            isSection |-> FALSE]

\* processNodeClass
processNodeClass(element) ==
  IF ~AttrTruthy(element, "class") THEN NoClass
  ELSE
    LET className == element.attrs["class"]
    IN  [isNull |-> FALSE,
         highlight |-> includes(className, "highlight")
                       \/ includes(className, "important"),
         textAlignment |->
           IF includes(className, "justify") \/ includes(className, "text-justify")
             THEN "JUSTIFY"
           ELSE IF includes(className, "right") \/ includes(className, "text-right")
             THEN "RIGHT"
           ELSE IF includes(className, "center") \/ includes(className, "text-center")
             THEN "CENTER"
           ELSE "",
         isSection |-> includes(className, "section")
                       \/ includes(className, "container")]

-----------------------------------------------------------------------------
(* Ricos nodes                                                             *)

\* generateId: a short string derived from Math.random().  The identifier
\* is opaque to the converter, which never reads it back; the model writes
\* one token for every generated identifier.
generateId == "rnd"

TextNode(text) == [type |-> "TEXT", id |-> "", textData |-> [text |-> text]]

DecoratedText(text, decorations) ==
  [type |-> "TEXT", id |-> "",
   textData |-> [text |-> text, decorations |-> decorations]]

Bold(weight) == [type |-> "BOLD", fontWeightValue |-> weight]
Italic == [type |-> "ITALIC"]
Underline == [type |-> "UNDERLINE"]
Color(c) == [type |-> "COLOR", colorData |-> [color |-> c]]
Link(url, target) ==
  [type |-> "LINK",
   linkData |-> [link |-> [url |-> url, target |-> target,
                           rel |-> [noreferrer |-> TRUE]]]]

\* createSpacingParagraph
createSpacingParagraph ==
  [type |-> "PARAGRAPH", id |-> generateId, nodes |-> <<TextNode(<<" ">>)>>]

\* a node with children and no data record (lists, items, quotes, code)
Container(type, kids) == [type |-> type, id |-> generateId, nodes |-> kids]

\* the width / height expression of the two img branches:
\* hasAttribute(a) ? parseInt(getAttribute(a) || '0') : dflt
ImgDimension(element, a, dflt) ==
  IF hasAttribute(element, a) THEN ParseInt(AttrOr(element, a, <<"0">>))
  ELSE [nan |-> FALSE, n |-> dflt]

\* the IMAGE node both img branches build
ImageNode(element) ==
  [type |-> "IMAGE", id |-> generateId,
   imageData |->
     [containerData |-> [width |-> [size |-> "CONTENT"],
                         alignment |-> "CENTER", textWrap |-> TRUE],
      image |-> [src |-> [url |-> AttrOr(element, "src", <<>>)],
                 width |-> ImgDimension(element, "width", 500),
                 height |-> ImgDimension(element, "height", 300)]]]

HeadingTags == {"h1", "h2", "h3", "h4", "h5", "h6"}

\* parseInt(tagName.charAt(1)) for the tags of the heading cases
HeadingLevel(tagName) ==
  CASE tagName = "h1" -> 1 [] tagName = "h2" -> 2 [] tagName = "h3" -> 3
    [] tagName = "h4" -> 4 [] tagName = "h5" -> 5 [] tagName = "h6" -> 6

Min(a, b) == IF a <= b THEN a ELSE b

\* the HEADING node both heading branches build, from an h1..h6 element
\* and its converted inline content
HeadingNode(element, inline) ==
  LET headingStyle == processNodeStyle(element)
  IN  [type |-> "HEADING", id |-> generateId, nodes |-> inline,
       headingData |->
         [level |-> Min(HeadingLevel(element.tagName), 6),
          textStyle |->
            [textAlignment |-> IF headingStyle.textAlignment # ""
                                 THEN headingStyle.textAlignment
                                 ELSE "AUTO"]]]

-----------------------------------------------------------------------------
(* Inline Processor, Table Builder, Block Dispatcher, Tree Walker          *)

RECURSIVE processTextAndInlineElements(_)
RECURSIVE InlineLoop(_, _)
RECURSIVE InlineChild(_, _)
RECURSIVE handleBlockElement(_)
RECURSIVE DivChildren(_)
RECURSIVE convertNodeToRicos(_)
RECURSIVE WalkLoop(_, _, _)
RECURSIVE WalkRest(_, _)
RECURSIVE WalkChild(_, _, _)

\* the tags processTextAndInlineElements hands to handleBlockElement
InlineBlockTags ==
  HeadingTags \cup {"p", "div", "blockquote", "pre", "ul", "ol", "li"}

\* StyledText with the text trimmed, as the div case of handleBlockElement
\* trims its stray text
StyledTextTrimmed(text, parentStyle) ==
  IF ~parentStyle.isNull /\ (parentStyle.color # <<>> \/ parentStyle.fontWeight # 0)
    THEN DecoratedText(Trim(text),
           (IF parentStyle.color # <<>> THEN <<Color(parentStyle.color)>> ELSE <<>>)
           \o (IF parentStyle.fontWeight >= 600
                 THEN <<Bold(parentStyle.fontWeight)>> ELSE <<>>))
    ELSE TextNode(Trim(text))

\* the Text leaf of a non-blank text child, decorated from the style of
\* the parent element
StyledText(text, parentStyle) ==
  IF ~parentStyle.isNull /\ (parentStyle.color # <<>> \/ parentStyle.fontWeight # 0)
    THEN DecoratedText(text,
           (IF parentStyle.color # <<>> THEN <<Color(parentStyle.color)>> ELSE <<>>)
           \o (IF parentStyle.fontWeight >= 600
                 THEN <<Bold(parentStyle.fontWeight)>> ELSE <<>>))
    ELSE TextNode(text)

\* the Text leaf of an a element
AnchorText(childElement) ==
  DecoratedText(textContent(childElement),
    << Link(AttrOr(childElement, "href", <<>>),
            IF hasAttribute(childElement, "target")
               /\ childElement.attrs["target"] = <<"_", "b", "l", "a", "n", "k">>
              THEN "BLANK" ELSE "SELF"),
       Underline >>)

\* one iteration of the loop of processTextAndInlineElements: the nodes
\* pushed for one child
InlineChild(child, parentStyle) ==
  IF child.nodeType = 3
    THEN IF NonBlank(child.textContent)
           THEN <<StyledText(child.textContent, parentStyle)>>
           ELSE <<>>
  ELSE IF child.nodeType # 1 THEN <<>>
  ELSE
    LET tagName == child.tagName IN
    CASE tagName \in {"strong", "b"} ->
           <<DecoratedText(textContent(child), <<Bold(700)>>)>>
      [] tagName \in {"em", "i"} ->
           <<DecoratedText(textContent(child), <<Italic>>)>>
      [] tagName = "u" ->
           <<DecoratedText(textContent(child), <<Underline>>)>>
      [] tagName = "a" -> <<AnchorText(child)>>
      [] tagName = "span" -> processTextAndInlineElements(child)
      [] tagName = "br" -> <<TextNode(<<"\n">>)>>
      [] tagName = "img" -> <<ImageNode(child)>>
      [] OTHER ->
           IF tagName \in InlineBlockTags
             THEN handleBlockElement(child)
             ELSE processTextAndInlineElements(child)

\* InlineLoop putting the nodes of a child before those already collected
InlineLoopUnshift(childNodes, parentStyle) ==
  IF childNodes = <<>> THEN <<>>
  ELSE InlineLoop(Tail(childNodes), parentStyle)
       \o InlineChild(Head(childNodes), parentStyle)

\* the loop of processTextAndInlineElements over childNodes
InlineLoop(childNodes, parentStyle) ==
  IF childNodes = <<>> THEN <<>>
  ELSE InlineChild(Head(childNodes), parentStyle)
       \o InlineLoop(Tail(childNodes), parentStyle)

processTextAndInlineElements(element) ==
  InlineLoop(element.childNodes, processNodeStyle(element))

\* CellNode without the fallback Text leaf of a cell that has no inline
\* content
CellNodeNoFallback(cell, isHeaderRow) ==
  [type |-> "TABLE_CELL", id |-> generateId,
   nodes |-> <<[type |-> "PARAGRAPH", id |-> generateId,
                paragraphData |-> [textStyle |-> [textAlignment |-> "CENTER"]],
                nodes |-> processTextAndInlineElements(cell)]>>]

\* the TABLE_CELL node handleTable builds for one th / td
CellNode(cell, isHeaderRow) ==
  LET isHeader == cell.tagName = "th" \/ isHeaderRow
      cellContentNodes == processTextAndInlineElements(cell)
      textNode == IF isHeader
                    THEN DecoratedText(textContent(cell), <<Bold(700)>>)
                    ELSE TextNode(textContent(cell))
      cellParagraph ==
        [type |-> "PARAGRAPH", id |-> generateId,
         paragraphData |-> [textStyle |-> [textAlignment |-> "CENTER"]],
         nodes |-> IF Len(cellContentNodes) > 0 THEN cellContentNodes
                   ELSE <<textNode>>]
  IN  IF AttrTruthy(cell, "colspan")
        THEN [type |-> "TABLE_CELL", id |-> generateId,
              cellData |-> [colspan |-> ParseInt(cell.attrs["colspan"])],
              nodes |-> <<cellParagraph>>]
        ELSE [type |-> "TABLE_CELL", id |-> generateId,
              nodes |-> <<cellParagraph>>]

\* the rows handleTable iterates over: every tr below the table, with its
\* cells (every th / td below the row) and the header flag of the row
TableRowsOf(element) ==
  LET rows == Descendants(element, {"tr"})
  IN  [i \in 1..Len(rows) |->
         [cells |-> querySelectorAll(rows[i].el, {"th", "td"}),
          isHeaderRow |-> rows[i].parentTag = "thead"]]

RECURSIVE MaxOf(_)
MaxOf(seq) ==
  IF seq = <<>> THEN 0
  ELSE LET m == MaxOf(Tail(seq)) IN IF Head(seq) >= m THEN Head(seq) ELSE m

\* handleTable
handleTable(element) ==
  LET rows == TableRowsOf(element)
      kept == SelectSeq(rows, LAMBDA r : Len(r.cells) # 0)
      tableRows ==
        [i \in 1..Len(kept) |->
           [type |-> "TABLE_ROW", id |-> generateId,
            nodes |-> [j \in 1..Len(kept[i].cells) |->
                         CellNode(kept[i].cells[j], kept[i].isHeaderRow)]]]
      maxCols == MaxOf([i \in 1..Len(kept) |-> Len(kept[i].cells)])
  IN  IF Len(rows) = 0 THEN createSpacingParagraph
      ELSE [type |-> "TABLE", id |-> generateId, nodes |-> tableRows,
            tableData |->
              [dimensions |->
                 [colsWidthRatio |-> [i \in 1..maxCols |-> 150],
                  rowsHeight |-> [i \in 1..Len(kept) |-> 50],
                  colsMinWidth |-> [i \in 1..maxCols |-> 140]],
               borderColor |-> "#CFCFCF",
               cellStyle |-> [borderWidth |-> 1, borderStyle |-> "solid"]]]

\* the PARAGRAPH node of the p case of handleBlockElement
ParagraphNode(element, inline) ==
  LET pStyle == processNodeStyle(element)
      textStyle == [textAlignment |-> IF pStyle.textAlignment # ""
                                        THEN pStyle.textAlignment ELSE "AUTO"]
  IN  IF pStyle.isNull
        THEN [type |-> "PARAGRAPH", id |-> generateId, nodes |-> inline]
      ELSE IF pStyle.margin \/ pStyle.padding
        THEN [type |-> "PARAGRAPH", id |-> generateId, nodes |-> inline,
              paragraphData |-> [textStyle |-> textStyle, indentation |-> 1]]
      ELSE [type |-> "PARAGRAPH", id |-> generateId, nodes |-> inline,
            paragraphData |-> [textStyle |-> textStyle]]

\* the tags that make a div "have block children" in handleBlockElement
DivBlockTags ==
  HeadingTags \cup {"p", "div", "blockquote", "pre", "ul", "ol", "table"}

\* the loop of the div case over element.childNodes
DivChildren(childNodes) ==
  IF childNodes = <<>> THEN <<>>
  ELSE
    LET childNode == Head(childNodes)
        text == IF childNode.nodeType = 3 THEN Trim(childNode.textContent)
                ELSE <<>>
    IN  (IF childNode.nodeType = 1 THEN convertNodeToRicos(childNode)
         ELSE IF childNode.nodeType = 3 /\ text # <<>>
           THEN <<Container("PARAGRAPH", <<TextNode(text)>>)>>
         ELSE <<>>)
        \o DivChildren(Tail(childNodes))

\* the PARAGRAPH node of the div case without block children
DivParagraph(element, divClass) ==
  IF ~divClass.isNull /\ divClass.textAlignment # ""
    THEN [type |-> "PARAGRAPH", id |-> generateId,
          nodes |-> processTextAndInlineElements(element),
          paragraphData |->
            [textStyle |-> [textAlignment |-> divClass.textAlignment]]]
    ELSE Container("PARAGRAPH", processTextAndInlineElements(element))

handleBlockElement(element) ==
  LET tagName == element.tagName IN
  CASE tagName = "p" ->
         <<ParagraphNode(element, processTextAndInlineElements(element))>>
    [] tagName \in HeadingTags ->
         (IF tagName \in {"h2", "h3"} THEN <<createSpacingParagraph>> ELSE <<>>)
         \o <<HeadingNode(element, processTextAndInlineElements(element))>>
         \o <<createSpacingParagraph>>
         \o (IF tagName = "h2" THEN <<createSpacingParagraph>> ELSE <<>>)
    [] tagName = "ul" ->
         <<Container("BULLETED_LIST", convertNodeToRicos(element)),
           createSpacingParagraph>>
    [] tagName = "ol" ->
         <<Container("ORDERED_LIST", convertNodeToRicos(element)),
           createSpacingParagraph>>
    [] tagName = "li" ->
         <<Container("LIST_ITEM", processTextAndInlineElements(element))>>
    [] tagName = "blockquote" ->
         <<Container("BLOCKQUOTE", processTextAndInlineElements(element)),
           createSpacingParagraph>>
    [] tagName \in {"pre", "code"} ->
         <<Container("CODE_BLOCK", <<TextNode(textContent(element))>>),
           createSpacingParagraph>>
    [] tagName = "div" ->
         LET divClass == processNodeClass(element)
             kids == children(element)
             hasBlockChildren ==
               \E i \in 1..Len(kids) : kids[i].tagName \in DivBlockTags
             sectionSpacing ==
               IF ~divClass.isNull /\ divClass.isSection
                 THEN <<createSpacingParagraph, createSpacingParagraph>>
                 ELSE <<>>
         IN  sectionSpacing
             \o (IF hasBlockChildren THEN DivChildren(element.childNodes)
                 ELSE <<DivParagraph(element, divClass)>>)
             \o sectionSpacing
    [] OTHER ->
         <<Container("PARAGRAPH", processTextAndInlineElements(element))>>

\* the walker's test for a spacing paragraph before a heading
SpacingBeforeHeading(nodes_, previousWasHeading) ==
  Len(nodes_) > 0 /\ ~previousWasHeading

\* WalkHeading without the spacing paragraph after the heading
WalkHeadingNoSpacingAfter(element, nodes_, previousWasHeading) ==
  (IF SpacingBeforeHeading(nodes_, previousWasHeading)
     THEN <<createSpacingParagraph>> ELSE <<>>)
  \o <<HeadingNode(element, processTextAndInlineElements(element))>>

\* the nodes the heading case of the walker pushes
WalkHeading(element, nodes_, previousWasHeading) ==
  (IF SpacingBeforeHeading(nodes_, previousWasHeading)
     THEN <<createSpacingParagraph>> ELSE <<>>)
  \o <<HeadingNode(element, processTextAndInlineElements(element))>>
  \o <<createSpacingParagraph>>

\* one iteration of the first loop of convertNodeToRicos: the nodes array
\* and previousWasHeading after the child (previousWasText is only ever
\* written by the code and is left out)
WalkChild(child, nodes_, previousWasHeading) ==
  LET keep(pushed) == [nodes |-> nodes_ \o pushed,
                       previousWasHeading |-> previousWasHeading]
  IN
  IF child.nodeType = 3
    THEN IF NonBlank(child.textContent)
           THEN [nodes |-> Append(nodes_, TextNode(child.textContent)),
                 previousWasHeading |-> FALSE]
           ELSE keep(<<>>)
  ELSE IF child.nodeType # 1 THEN keep(<<>>)
  ELSE
    LET tagName == child.tagName IN
    CASE tagName = "p" ->
           [nodes |-> nodes_ \o handleBlockElement(child),
            previousWasHeading |-> FALSE]
      [] tagName \in HeadingTags ->
           [nodes |-> nodes_ \o WalkHeading(child, nodes_, previousWasHeading),
            previousWasHeading |-> TRUE]
      [] tagName = "div" -> keep(convertNodeToRicos(child))
      [] tagName = "table" ->
           keep(<<handleTable(child), createSpacingParagraph>>)
      [] tagName \in {"thead", "tbody", "tfoot", "tr"} ->
           keep(convertNodeToRicos(child))
      [] tagName \in {"th", "td"} -> keep(processTextAndInlineElements(child))
      [] tagName \in {"strong", "em", "a", "b", "i", "u", "span"} ->
           keep(processTextAndInlineElements(child))
      [] tagName = "img" -> keep(<<ImageNode(child)>>)
      [] tagName = "ul" ->
           keep(<<Container("BULLETED_LIST", convertNodeToRicos(child))>>)
      [] tagName = "ol" ->
           keep(<<Container("ORDERED_LIST", convertNodeToRicos(child))>>)
      [] tagName = "li" ->
           keep(<<Container("LIST_ITEM", processTextAndInlineElements(child))>>)
      [] tagName = "blockquote" ->
           keep(<<Container("BLOCKQUOTE", processTextAndInlineElements(child))>>)
      [] tagName \in {"pre", "code"} ->
           keep(<<Container("CODE_BLOCK", <<TextNode(textContent(child))>>)>>)
      [] tagName = "hr" -> keep(<<[type |-> "DIVIDER", id |-> generateId]>>)
      [] tagName = "br" ->
           keep(<<Container("PARAGRAPH", <<TextNode(<<" ">>)>>)>>)
      [] OTHER -> keep(handleBlockElement(child))

WalkLoop(childNodes, nodes_, previousWasHeading) ==
  IF childNodes = <<>> THEN nodes_
  ELSE WalkRest(Tail(childNodes),
                WalkChild(Head(childNodes), nodes_, previousWasHeading))

\* the loop continued from the state one iteration left
WalkRest(childNodes, after) ==
  WalkLoop(childNodes, after.nodes, after.previousWasHeading)

\* the test of the second loop of convertNodeToRicos
IsSectionDiv(child) ==
  /\ child.nodeType = 1
  /\ child.tagName = "div"
  /\ AttrTruthy(child, "class")
  /\ (includes(child.attrs["class"], "section")
      \/ includes(child.attrs["class"], "container"))

\* the second loop of convertNodeToRicos: what it pushes, given the
\* children it runs over
RECURSIVE SectionSpacing(_)
SectionSpacing(childNodes) ==
  IF childNodes = <<>> THEN <<>>
  ELSE (IF IsSectionDiv(Head(childNodes))
          THEN <<createSpacingParagraph, createSpacingParagraph>>
          ELSE <<>>)
       \o SectionSpacing(Tail(childNodes))

convertNodeToRicos(node) ==
  IF node.nodeType # 1 THEN <<>>
  ELSE WalkLoop(node.childNodes, <<>>, FALSE) \o SectionSpacing(node.childNodes)

-----------------------------------------------------------------------------
(* Spacing Normalizer and Document Assembler (htmlToRicos)                 *)

\* the spacing-paragraph test htmlToRicos writes out four times
isSpacing(node) ==
  /\ node.type = "PARAGRAPH"
  /\ "nodes" \in DOMAIN node
  /\ Len(node.nodes) = 1
  /\ node.nodes[1].type = "TEXT"
  /\ node.nodes[1].textData.text = <<" ">>

\* SkipSpacing comparing with the type of the node and not with the
\* 'SPACING' mark: no spacing paragraph is ever skipped
SkipSpacingByType(spacing, previousType) ==
  spacing /\ previousType = "PARAGRAPH"

\* `if (isSpacing && previousType === 'SPACING') continue`
SkipSpacing(spacing, previousType) == spacing /\ previousType = "SPACING"

\* EnhanceHeading without the spacing paragraph before the heading
EnhanceHeadingNoBefore(nodes_, i, previousType) ==
  <<nodes_[i]>>
  \o (IF i + 1 <= Len(nodes_) /\ isSpacing(nodes_[i + 1])
        THEN <<>> ELSE <<createSpacingParagraph>>)

\* the nodes pushed for the heading at position i (1-based) of nodes_
EnhanceHeading(nodes_, i, previousType) ==
  (IF i > 1 /\ previousType # "SPACING" THEN <<createSpacingParagraph>> ELSE <<>>)
  \o <<nodes_[i]>>
  \o (IF i + 1 <= Len(nodes_) /\ isSpacing(nodes_[i + 1])
        THEN <<>> ELSE <<createSpacingParagraph>>)

\* the first loop of htmlToRicos, from position i on
RECURSIVE EnhanceLoop(_, _, _, _)
EnhanceLoop(nodes_, i, enhanced, previousType) ==
  IF i > Len(nodes_) THEN enhanced
  ELSE
    LET node == nodes_[i] IN
    IF SkipSpacing(isSpacing(node), previousType)
      THEN EnhanceLoop(nodes_, i + 1, enhanced, previousType)
    ELSE IF node.type = "HEADING"
      THEN EnhanceLoop(nodes_, i + 1,
                       enhanced \o EnhanceHeading(nodes_, i, previousType),
                       "HEADING")
    ELSE IF isSpacing(node)
      THEN EnhanceLoop(nodes_, i + 1, Append(enhanced, node), "SPACING")
    ELSE EnhanceLoop(nodes_, i + 1, Append(enhanced, node), node.type)

\* enhance with its loop started at the second node
enhanceFromSecond(nodes_) == EnhanceLoop(nodes_, 2, <<>>, "null")

\* the first loop of htmlToRicos: enhancedNodes for the walker's nodes
enhance(nodes_) == EnhanceLoop(nodes_, 1, <<>>, "null")

RECURSIVE StartIndex(_, _)
StartIndex(enhanced, startIndex) ==
  IF startIndex <= Len(enhanced) /\ isSpacing(enhanced[startIndex])
    THEN StartIndex(enhanced, startIndex + 1) ELSE startIndex

RECURSIVE EndIndex(_, _)
EndIndex(enhanced, endIndex) ==
  IF endIndex >= 1 /\ isSpacing(enhanced[endIndex])
    THEN EndIndex(enhanced, endIndex - 1) ELSE endIndex

\* cleanedNodes without the loop over the trailing spacing paragraphs
cleanedNodesLeadingOnly(enhanced) ==
  SubSeq(enhanced, StartIndex(enhanced, 1), Len(enhanced))

\* cleanedNodes: enhanced without its leading and trailing spacing
cleanedNodes(enhanced) ==
  SubSeq(enhanced, StartIndex(enhanced, 1), EndIndex(enhanced, Len(enhanced)))

\* htmlToRicos on the body element the DOM supplier returns for the
\* sanitized html
htmlToRicos(body) ==
  [nodes |-> cleanedNodes(enhance(convertNodeToRicos(body)))]

-----------------------------------------------------------------------------
(* Requests: the bodies the handler is exercised on                        *)

MaxBody == 3   \* longest body over CoreItems
MaxWide == 2   \* longest body over AllItems

T1 == <<"x">>            \* non-blank text
T2 == <<"y", " ">>       \* non-blank text that trim() shortens
B1 == <<" ">>            \* exactly one space
B2 == <<"\n", " ">>      \* the whitespace between two tags

U1 == <<"u", "1">>       \* a URL
Blank == <<"_", "b", "l", "a", "n", "k">>

E(tag, kids) == El(tag, NoAttrs, kids)
Class(name) == "class" :> <<name>>
Style(decls) == "style" :> decls

\* child sequences of inline content
K_text  == <<Txt(T1)>>
K_mixed == <<Txt(T2), E("strong", <<Txt(T1)>>), Txt(B1), E("em", <<Txt(T1)>>)>>
K_a     == <<Txt(T1), El("a", "href" :> U1, <<Txt(T2)>>)>>
K_blank == <<El("a", ("href" :> U1) @@ ("target" :> Blank),
                <<E("b", <<Txt(T1)>>), Txt(T2)>>)>>
K_span  == <<El("span", Style(<<Decl("color", W_red, TRUE),
                                Decl("font-weight", <<"6", "0", "0">>, FALSE)>>),
                <<Txt(T1), E("br", <<>>)>>)>>
K_bsp   == <<E("b", <<Txt(B1)>>)>>

Tr(cells) == E("tr", cells)

\* tables, as the parser builds them (a tr is always inside a section)
T_basic == E("table", <<E("tbody", <<Tr(<<E("th", K_text)>>),
                                     Tr(<<E("td", K_text)>>)>>)>>)
T_thead == E("table", <<Txt(B2),
                        E("thead", <<Tr(<<E("td", K_text), E("th", <<>>)>>)>>),
                        E("tbody", <<Tr(<<E("td", K_mixed),
                                          El("td", "colspan" :> <<"2">>, K_a)>>),
                                     Tr(<<>>)>>)>>)
T_norow == E("table", <<E("tbody", <<>>)>>)
T_blank == E("table", <<E("tbody", <<Tr(<<E("th", <<Txt(B2)>>),
                                          E("td", <<>>)>>)>>)>>)
T_nested ==
  E("table", <<E("tbody", <<Tr(<<E("td",
     <<Txt(T1),
       E("table", <<E("tbody", <<Tr(<<E("td", <<Txt(T2)>>)>>)>>)>>)>>)>>)>>)>>)

\* the items whose sequences of up to MaxBody make the bodies that
\* exercise the spacing rules
CoreItems ==
  { Txt(T1), Txt(B2),
    E("p", K_text),
    E("p", K_bsp),
    E("h1", K_text),
    E("h2", K_mixed),
    E("br", <<>>),
    El("div", Class("section"), <<E("p", K_text)>>),
    E("div", <<E("h3", K_text), Txt(T2)>>),
    El("a", "href" :> U1, K_text),
    T_basic }

\* further items, for the bodies of up to MaxWide
WideItems ==
  { El("p", Class("center"), <<Txt(T2)>>),
    El("p", Style(<<Decl("margin", <<"4">>, TRUE),
                    Decl("text-align", W_center, FALSE)>>), K_text),
    El("p", Style(<<Decl("font-weight", W_bold, TRUE)>>), K_a),
    E("p", K_blank),
    E("p", K_span),
    E("p", <<>>),
    E("h3", K_a),
    El("h6", Style(<<Decl("text-align", W_right, TRUE)>>), K_text),
    El("div", Class("container"), <<Txt(T1), E("u", K_text)>>),
    E("div", <<El("div", Class("subsection"), <<E("h2", K_text)>>),
                E("p", K_text)>>),
    E("span", K_a),
    E("strong", K_text),
    El("a", ("href" :> U1) @@ ("target" :> Blank), K_text),
    E("blockquote", K_mixed),
    E("pre", <<Txt(T2), E("b", K_text)>>),
    E("hr", <<>>),
    E("ul", <<Txt(B2), E("li", K_text), E("li", K_a)>>),
    E("ol", <<E("li", <<Txt(T1), E("ul", <<E("li", K_text)>>)>>),
               E("h2", K_text)>>),
    E("li", <<E("div", <<E("p", K_text), E("h3", K_text),
                          E("ul", <<E("li", K_text)>>), Txt(T2)>>)>>),
    E("blockquote", <<El("div", Class("section text-right"), K_text)>>),
    E("img", <<>>),
    El("img", ("src" :> U1) @@ ("width" :> <<"6", "4", "0">>)
              @@ ("height" :> <<"4", "8", "p", "x">>), <<>>),
    El("img", ("width" :> <<>>) @@ ("height" :> <<"a">>), <<>>),
    E("span", <<E("h2", K_text), Txt(T1)>>),
    E("blockquote", <<E("h1", K_text)>>),
    E("div", <<T_norow, E("br", <<>>)>>),
    E("p", <<E("em", <<Txt(B2)>>)>>),
    E("code", <<>>),
    E("li", <<E("h2", K_text)>>),
    T_thead, T_norow, T_blank, T_nested }

AllItems == CoreItems \cup WideItems

SeqsUpTo(S, n) == UNION {[1..k -> S] : k \in 0..n}

\* the body element of the document the DOM supplier builds
Body(kids) == E("body", kids)

\* the value of req.body.html: absent, the empty string, a value the
\* sanitizer or the DOM supplier throws on, or markup (given by the body
\* element it parses to)
HtmlValues ==
  { [kind |-> "missing"], [kind |-> "empty"], [kind |-> "throws"] }
  \cup { [kind |-> "markup", body |-> Body(kids)] :
           kids \in SeqsUpTo(CoreItems, MaxBody) \cup SeqsUpTo(AllItems, MaxWide) }

Requests ==
  { [method |-> "GET", path |-> "/"] }
  \cup { [method |-> "POST", path |-> "/convert", html |-> h] : h \in HtmlValues }

-----------------------------------------------------------------------------
(* The server (src/src/index.js)                                           *)

Init ==
  /\ pc = "received"
  /\ req \in Requests
  /\ res = <<>>
  /\ calls = 0
  /\ nodes = <<>>
  /\ enhancedNodes = <<>>

\* app.get('/')
GetRoot ==
  /\ pc = "received"
  /\ req.method = "GET"
  /\ res' = Append(res, [status |-> 200,
                         json |-> [message |-> "HTML to Ricos API"]])
  /\ pc' = "responded"
  /\ UNCHANGED <<req, calls, nodes, enhancedNodes>>

\* `!html` on the html field of the request body
HtmlFalsy(html) == html.kind \in {"missing", "empty"}

\* htmlToRicos throws: sanitizeHtml or new JSDOM raises on the value
Throws(html) == html.kind = "throws"

\* the body of the 400 answer
BadRequest ==
  [status |-> 400, json |-> [error |-> "HTML content is required"]]

\* the body of the 500 answer of the catch block
ServerErrorNoMessage ==
  [status |-> 500, json |-> [error |-> "Error converting HTML to Ricos"]]

ServerError ==
  [status |-> 500, json |-> [error |-> "Error converting HTML to Ricos",
                             message |-> "error.message"]]

\* app.post('/convert'), html missing: 400 and return
Reject ==
  /\ pc = "received"
  /\ req.method = "POST"
  /\ HtmlFalsy(req.html)
  /\ res' = Append(res, BadRequest)
  /\ pc' = "responded"
  /\ UNCHANGED <<req, calls, nodes, enhancedNodes>>

\* app.post('/convert'), htmlToRicos throws: the catch block answers 500
Fail ==
  /\ pc = "received"
  /\ req.method = "POST"
  /\ ~HtmlFalsy(req.html)
  /\ Throws(req.html)
  /\ calls' = calls + 1
  /\ res' = Append(res, ServerError)
  /\ pc' = "responded"
  /\ UNCHANGED <<req, nodes, enhancedNodes>>

\* app.post('/convert'), htmlToRicos returns: its result is the response
Convert ==
  /\ pc = "received"
  /\ req.method = "POST"
  /\ ~HtmlFalsy(req.html)
  /\ ~Throws(req.html)
  /\ calls' = calls + 1
  /\ nodes' = convertNodeToRicos(req.html.body)
  /\ enhancedNodes' = enhance(nodes')
  /\ res' = Append(res, [status |-> 200,
                         json |-> [nodes |-> cleanedNodes(enhancedNodes')]])
  /\ pc' = "responded"
  /\ UNCHANGED req

Next == GetRoot \/ Reject \/ Fail \/ Convert

Spec == Init /\ [][Next]_vars

-----------------------------------------------------------------------------
(* The Spacing Normalizer on its own: the two loops of htmlToRicos run on  *)
(* a given sequence of nodes                                               *)

MaxNodes == 4   \* longest sequence handed to the normalizer

N_H == HeadingNode(E("h1", K_text), <<TextNode(T1)>>)
N_P == Container("PARAGRAPH", <<TextNode(T1)>>)
N_D == [type |-> "DIVIDER", id |-> generateId]
NormalizerItems == {N_H, N_P, N_D, createSpacingParagraph}

InitNormalizer ==
  /\ pc = "walked"
  /\ req = [method |-> "POST", path |-> "/convert", html |-> [kind |-> "nodes"]]
  /\ res = <<>>
  /\ calls = 1
  /\ nodes \in SeqsUpTo(NormalizerItems, MaxNodes)
  /\ enhancedNodes = <<>>

\* the first loop of htmlToRicos
Enhance ==
  /\ pc = "walked"
  /\ enhancedNodes' = enhance(nodes)
  /\ pc' = "enhanced"
  /\ UNCHANGED <<req, res, calls, nodes>>

\* the trimming loops of htmlToRicos and its return
CleanUp ==
  /\ pc = "enhanced"
  /\ res' = Append(res, [status |-> 200,
                         json |-> [nodes |-> cleanedNodes(enhancedNodes)]])
  /\ pc' = "responded"
  /\ UNCHANGED <<req, calls, nodes, enhancedNodes>>

NextNormalizer == Enhance \/ CleanUp

SpecNormalizer == InitNormalizer /\ [][NextNormalizer]_vars

-----------------------------------------------------------------------------
(* Vocabulary of the properties                                            *)

\* the handler has answered a POST whose html is markup
Answered ==
  pc = "responded" /\ req.method = "POST" /\ req.html.kind = "markup"

\* the Document sent, and the children of the body it was made from
Document == res[1].json
bodyKids == req.html.body.childNodes

\* a spacing node: a Paragraph whose sole child is a Text leaf holding
\* exactly one space
SpacingNode(n) ==
  /\ n.type = "PARAGRAPH"
  /\ Len(n.nodes) = 1
  /\ n.nodes[1].type = "TEXT"
  /\ n.nodes[1].textData.text = <<" ">>

HasSpacing(seq) == \E i \in 1..Len(seq) : SpacingNode(seq[i])

AdjacentSpacing(seq) ==
  \E i \in 1..(Len(seq) - 1) : SpacingNode(seq[i]) /\ SpacingNode(seq[i + 1])

\* all nodes of a node sequence, children included, in document order
RECURSIVE Flatten(_)
Flatten(seq) ==
  IF seq = <<>> THEN <<>>
  ELSE <<Head(seq)>>
       \o (IF "nodes" \in DOMAIN Head(seq) THEN Flatten(Head(seq).nodes) ELSE <<>>)
       \o Flatten(Tail(seq))

OfType(seq, type) == SelectSeq(Flatten(seq), LAMBDA n : n.type = type)

\* the positions of seq from i on that hold a Heading, ascending
RECURSIVE HeadingPositions(_, _)
HeadingPositions(seq, i) ==
  IF i > Len(seq) THEN <<>>
  ELSE (IF seq[i].type = "HEADING" THEN <<i>> ELSE <<>>)
       \o HeadingPositions(seq, i + 1)

-----------------------------------------------------------------------------
(* C1 .. C10                                                               *)

PlainTextBody ==
  /\ Len(bodyKids) = 1
  /\ bodyKids[1].nodeType = 3
  /\ NonBlank(bodyKids[1].textContent)

\* C1: a body that is only non-blank plain text yields a Document of exactly
\* one node, a Paragraph whose only child is one Text leaf holding that
\* text, and no spacing node.
C1_PlainTextParagraph ==
  (Answered /\ PlainTextBody) =>
    /\ Len(Document.nodes) = 1
    /\ Document.nodes[1].type = "PARAGRAPH"
    /\ Len(Document.nodes[1].nodes) = 1
    /\ Document.nodes[1].nodes[1].type = "TEXT"
    /\ Document.nodes[1].nodes[1].textData.text = bodyKids[1].textContent
    /\ ~HasSpacing(Document.nodes)

SinglePlainP ==
  /\ Len(bodyKids) = 1
  /\ bodyKids[1].nodeType = 1
  /\ bodyKids[1].tagName = "p"
  /\ ~hasAttribute(bodyKids[1], "style")
  /\ Len(bodyKids[1].childNodes) = 1
  /\ bodyKids[1].childNodes[1].nodeType = 3
  /\ NonBlank(bodyKids[1].childNodes[1].textContent)

\* C2: a single p without style that holds only non-blank text T yields
\* {nodes: [N]}, N a PARAGRAPH with a generated (non-empty) id whose nodes
\* are exactly one TEXT node with id "" and textData.text = T; no spacing
\* Paragraph is present.
C2_SingleParagraph ==
  (Answered /\ SinglePlainP) =>
    /\ DOMAIN Document = {"nodes"}
    /\ Len(Document.nodes) = 1
    /\ Document.nodes[1].type = "PARAGRAPH"
    /\ Document.nodes[1].id # ""
    /\ Len(Document.nodes[1].nodes) = 1
    /\ Document.nodes[1].nodes[1].type = "TEXT"
    /\ Document.nodes[1].nodes[1].id = ""
    /\ Document.nodes[1].nodes[1].textData.text
         = bodyKids[1].childNodes[1].textContent
    /\ ~HasSpacing(Document.nodes)

C2_Witness ==
  /\ Answered /\ SinglePlainP
  /\ bodyKids[1].childNodes[1].textContent = T2
  /\ Len(Document.nodes) = 1

\* C3: the top-level nodes of the Document never hold two spacing nodes
\* at adjacent positions.
C3_NoAdjacentSpacing == Answered => ~AdjacentSpacing(Document.nodes)

\* the walker produced a run of spacing nodes and one spacing node of it
\* is in the Document
C3_Witness ==
  /\ Answered
  /\ AdjacentSpacing(nodes)
  /\ HasSpacing(Document.nodes)

\* C4: neither the first nor the last node of a non-empty Document is a
\* spacing node.
C4_NoSpacingAtEnds ==
  (Answered /\ Document.nodes # <<>>) =>
    /\ ~SpacingNode(Document.nodes[1])
    /\ ~SpacingNode(Document.nodes[Len(Document.nodes)])

\* spacing was trimmed at both ends of a Document that is not empty
C4_Witness ==
  /\ Answered
  /\ Document.nodes # <<>>
  /\ SpacingNode(enhancedNodes[1])
  /\ SpacingNode(enhancedNodes[Len(enhancedNodes)])

IsHeadingElement(c) == c.nodeType = 1 /\ c.tagName \in HeadingTags

\* children i < j of the body are headings with nothing but whitespace
\* text between them
ConsecutiveHeadings(i, j) ==
  /\ i < j
  /\ IsHeadingElement(bodyKids[i])
  /\ IsHeadingElement(bodyKids[j])
  /\ \A k \in (i + 1)..(j - 1) :
       bodyKids[k].nodeType = 3 /\ ~NonBlank(bodyKids[k].textContent)

\* the number of top-level Heading nodes the children before i produce
HeadingsBefore(i) ==
  Len(HeadingPositions(WalkLoop(SubSeq(bodyKids, 1, i - 1), <<>>, FALSE), 1))

\* the number of spacing nodes between the n-th and the (n+1)-st top-level
\* Heading of the Document (-1 if it has no such Headings)
SpacingBetween(n) ==
  LET at == HeadingPositions(Document.nodes, 1)
  IN  IF Len(at) < n + 1 THEN -1
      ELSE Cardinality({k \in (at[n] + 1)..(at[n + 1] - 1) :
                          SpacingNode(Document.nodes[k])})

\* C5: for two heading elements that are consecutive siblings in the body,
\* the Document holds exactly one spacing node between the two Heading
\* nodes.
C5_OneSpacingBetweenHeadings ==
  Answered =>
    \A i, j \in 1..Len(bodyKids) :
      ConsecutiveHeadings(i, j) => SpacingBetween(HeadingsBefore(i) + 1) = 1

\* two headings separated by whitespace text, after another node
C5_Witness ==
  /\ Answered
  /\ Len(bodyKids) = 3
  /\ ConsecutiveHeadings(1, 3)
  /\ SpacingBetween(1) = 1

TextLeaves(seq) == OfType(seq, "TEXT")

HasBold700(leaf) ==
  /\ "decorations" \in DOMAIN leaf.textData
  /\ \E k \in 1..Len(leaf.textData.decorations) :
       /\ leaf.textData.decorations[k].type = "BOLD"
       /\ leaf.textData.decorations[k].fontWeightValue = 700

HasBold(leaf) ==
  /\ "decorations" \in DOMAIN leaf.textData
  /\ \E k \in 1..Len(leaf.textData.decorations) :
       leaf.textData.decorations[k].type = "BOLD"

\* the th / td cells of a table element in row order, each with the flag
\* "is a header cell": a th, or a cell of a row whose parent is thead
RECURSIVE SourceCellsOf(_)
SourceCellsOf(rows) ==
  IF rows = <<>> THEN <<>>
  ELSE LET cells == querySelectorAll(Head(rows).el, {"th", "td"})
       IN  [k \in 1..Len(cells) |->
              [cell |-> cells[k],
               header |-> cells[k].tagName = "th"
                          \/ Head(rows).parentTag = "thead"]]
           \o SourceCellsOf(Tail(rows))

SourceCells(table) == SourceCellsOf(Descendants(table, {"tr"}))

SingleTableBody ==
  /\ Len(bodyKids) = 1
  /\ bodyKids[1].nodeType = 1
  /\ bodyKids[1].tagName = "table"
  /\ SourceCells(bodyKids[1]) # <<>>

\* C6: in a converted table the Text leaf of each header cell (a th, or a
\* cell of a row whose parent is thead) with non-blank text carries Bold
\* with weight 700, and the Text leaf of each non-header td carries no Bold.
C6_HeaderCellsBold ==
  (Answered /\ SingleTableBody) =>
    LET src == SourceCells(bodyKids[1])
        out == OfType(Document.nodes, "TABLE_CELL")
    IN  /\ Len(out) = Len(src)
        /\ \A k \in 1..Len(src) :
             LET leaves == TextLeaves(<<out[k]>>) IN
             /\ (src[k].header /\ NonBlank(textContent(src[k].cell)))
                  => \A m \in 1..Len(leaves) : HasBold700(leaves[m])
             /\ ~src[k].header
                  => \A m \in 1..Len(leaves) : ~HasBold(leaves[m])

\* the tags whose a children the claim counts as "inside a block element"
AnchorParents ==
  HeadingTags \cup {"body", "p", "div", "li", "blockquote", "td", "th"}

\* the a elements with an href directly under the body or a block element
Anchors ==
  SelectSeq(Descendants(req.html.body, {"a"}),
            LAMBDA d : d.parentTag \in AnchorParents /\ hasAttribute(d.el, "href"))

\* leaf is the Text leaf the claim describes for the a element
IsLinkLeaf(leaf, a) ==
  /\ leaf.textData.text = textContent(a)
  /\ "decorations" \in DOMAIN leaf.textData
  /\ Len(leaf.textData.decorations) = 2
  /\ leaf.textData.decorations[1].type = "LINK"
  /\ leaf.textData.decorations[1].linkData.link.url = a.attrs["href"]
  /\ leaf.textData.decorations[1].linkData.link.target
       = (IF hasAttribute(a, "target") /\ a.attrs["target"] = Blank
            THEN "BLANK" ELSE "SELF")
  /\ leaf.textData.decorations[2].type = "UNDERLINE"

\* C7: for every a element with href U, directly under the body or inside a
\* block element, the output holds a Text leaf with the anchor's flattened
\* text and the decorations Link(U, BLANK or SELF), Underline, in this order.
C7_AnchorLeaf ==
  Answered =>
    \A k \in 1..Len(Anchors) :
      LET leaves == TextLeaves(Document.nodes)
      IN  \E m \in 1..Len(leaves) : IsLinkLeaf(leaves[m], Anchors[k].el)

NonWs(s) == Len(SelectSeq(s, LAMBDA c : c \notin WS))

\* the text of all Text leaves of a node sequence, concatenated
RECURSIVE LeafText(_)
LeafText(leaves) ==
  IF leaves = <<>> THEN <<>>
  ELSE Head(leaves).textData.text \o LeafText(Tail(leaves))

\* C8: no source text node is emitted into more than one output Text leaf
\* and no source td / th cell yields more than one TableCell (so the output
\* is linear in the input): the Document holds no more TableCells than the
\* input holds cells, and its Text leaves hold no more non-whitespace
\* characters than the source text.
C8_NoDuplication ==
  Answered =>
    /\ Len(OfType(Document.nodes, "TABLE_CELL"))
         <= Len(Descendants(req.html.body, {"td", "th"}))
    /\ NonWs(LeafText(TextLeaves(Document.nodes)))
         <= NonWs(textContent(req.html.body))

\* C9: every POST /convert gets exactly one response: 400 without the
\* converter being invoked when html is missing or empty, 500 with the
\* error message when htmlToRicos throws, otherwise the complete Document
\* htmlToRicos returns; an error response never carries nodes.
C9_ExactlyOneResponse ==
  /\ pc = "received" => res = <<>>
  /\ (pc = "responded" /\ req.method = "POST") =>
       /\ Len(res) = 1
       /\ req.html.kind \in {"missing", "empty"} =>
            res[1].status = 400 /\ calls = 0
       /\ req.html.kind = "throws" =>
            /\ res[1].status = 500
            /\ "message" \in DOMAIN res[1].json
            /\ res[1].json.message = "error.message"
       /\ req.html.kind = "markup" =>
            /\ res[1].status = 200
            /\ calls = 1
            /\ res[1].json = htmlToRicos(req.html.body)
       /\ res[1].status # 200 => "nodes" \notin DOMAIN res[1].json

\* the converter threw and the one response is the 500
C9_Witness ==
  /\ pc = "responded"
  /\ req.method = "POST"
  /\ req.html.kind = "throws"
  /\ calls = 1
  /\ Len(res) = 1
  /\ res[1].status = 500

\* a div whose class contains "section" or "container"
SectionClassified(c) ==
  /\ c.nodeType = 1
  /\ c.tagName = "div"
  /\ hasAttribute(c, "class")
  /\ \E k \in 1..Len(c.attrs["class"]) :
       c.attrs["class"][k] \in {"section", "subsection", "container"}

\* C10: for every section-classified div child the Tree Walker processes,
\* the two extra spacing nodes come immediately after that div's converted
\* content, before the output of any sibling that follows the div.  Here for
\* the children of the body: with n the length of the walker's output for
\* the children up to the div, positions n+1 and n+2 hold spacing nodes.
C10_SectionSpacingFollowsDiv ==
  Answered =>
    \A i \in 1..Len(bodyKids) :
      SectionClassified(bodyKids[i]) =>
        LET n == Len(WalkLoop(SubSeq(bodyKids, 1, i), <<>>, FALSE))
        IN  /\ Len(nodes) >= n + 2
            /\ SpacingNode(nodes[n + 1])
            /\ SpacingNode(nodes[n + 2])

-----------------------------------------------------------------------------
(* C11 .. C19                                                              *)

\* the nodes array and previousWasHeading of the first loop of
\* convertNodeToRicos once it has run over childNodes, started in st
RECURSIVE WalkState(_, _)
WalkState(childNodes, st) ==
  IF childNodes = <<>> THEN st
  ELSE WalkState(Tail(childNodes),
                 WalkChild(Head(childNodes), st.nodes, st.previousWasHeading))

\* the state of the walker's loop over the body when it reaches child i
WalkStateBefore(i) ==
  WalkState(SubSeq(bodyKids, 1, i - 1),
            [nodes |-> <<>>, previousWasHeading |-> FALSE])

\* the last node emitted so far is a spacing node
LastIsSpacing(seq) == Len(seq) > 0 /\ SpacingNode(seq[Len(seq)])

\* C11: in the sequence the Tree Walker returns (here for the body), each
\* Heading that is not the first node is immediately preceded by a spacing
\* node, and the Walker pushes no spacing node before a heading when the
\* node it emitted last is already a spacing node.
C11_SpacingBeforeHeading ==
  Answered =>
    /\ \A k \in 2..Len(nodes) :
         nodes[k].type = "HEADING" => SpacingNode(nodes[k - 1])
    /\ \A i \in 1..Len(bodyKids) :
         (IsHeadingElement(bodyKids[i])
            /\ LastIsSpacing(WalkStateBefore(i).nodes))
           => ~SpacingBeforeHeading(WalkStateBefore(i).nodes,
                                    WalkStateBefore(i).previousWasHeading)

\* position k of seq holds a Heading with exactly one spacing node
\* immediately before it, unless it is first, and exactly one immediately
\* after it
OneSpacingAround(seq, k) ==
  /\ k > 1 => SpacingNode(seq[k - 1])
  /\ k > 2 => ~SpacingNode(seq[k - 2])
  /\ k < Len(seq) /\ SpacingNode(seq[k + 1])
  /\ k + 2 <= Len(seq) => ~SpacingNode(seq[k + 2])

AdjacentHeadings(seq) ==
  \E k \in 1..(Len(seq) - 1) :
    seq[k].type = "HEADING" /\ seq[k + 1].type = "HEADING"

WalkerNoAdjacentHeadings == Answered => ~AdjacentHeadings(nodes)

\* the content of a Text leaf is non-empty after trimming, or is one of
\* the two markers: one space, one newline
ContentOrMarker(leaf) ==
  \/ NonBlank(leaf.textData.text)
  \/ leaf.textData.text = <<" ">>
  \/ leaf.textData.text = <<"\n">>

\* C13: every Text leaf anywhere in the output Document has content that is
\* non-empty after trimming whitespace, unless it is exactly one space or
\* exactly one newline; also the leaves made from strong/b/em/i/u/a
\* elements, pre/code elements and table-cell fallbacks whose source text is
\* empty or whitespace-only.
C13_TextLeafContent ==
  Answered =>
    \A k \in 1..Len(TextLeaves(Document.nodes)) :
      ContentOrMarker(TextLeaves(Document.nodes)[k])

\* the img elements of the body, in document order, and the Image nodes of
\* the Document, in document order
SourceImages == querySelectorAll(req.html.body, {"img"})
ImageNodes == OfType(Document.nodes, "IMAGE")

\* the attribute a of an img is absent, empty or not parsable as an integer
NoDimension(img, a) ==
  \/ ~hasAttribute(img, a)
  \/ img.attrs[a] = <<>>
  \/ ParseInt(img.attrs[a]).nan

\* the dimension C14 states for attribute a of an img
StatedDimension(img, a, dflt) ==
  IF NoDimension(img, a) THEN [nan |-> FALSE, n |-> dflt]
  ELSE ParseInt(img.attrs[a])

\* C14: for every img element, inline or top-level, the Image node's width
\* is 500 when the width attribute is absent, empty or not parsable as an
\* integer and the parsed integer otherwise, and its height is 300 when the
\* height attribute is absent, empty or not parsable and the parsed integer
\* otherwise; no error is raised.
C14_ImageDimensions ==
  Answered =>
    /\ res[1].status = 200
    /\ Len(ImageNodes) = Len(SourceImages)
    /\ \A k \in 1..Len(ImageNodes) :
         /\ ImageNodes[k].imageData.image.width
              = StatedDimension(SourceImages[k], "width", 500)
         /\ ImageNodes[k].imageData.image.height
              = StatedDimension(SourceImages[k], "height", 300)

\* the divs of the body that the Inline Processor hands to the Block
\* Dispatcher: the div children of li and blockquote elements
DispatchedDivs ==
  SelectSeq(Descendants(req.html.body, {"div"}),
            LAMBDA d : d.parentTag \in {"li", "blockquote"})

\* the div has at least one block-tag child
HasBlockChildren(div) ==
  \E k \in 1..Len(div.childNodes) :
    /\ div.childNodes[k].nodeType = 1
    /\ div.childNodes[k].tagName \in DivBlockTags

\* the node type C15 states for a child of such a div
StatedType(child) ==
  IF child.nodeType = 3 THEN "PARAGRAPH"
  ELSE CASE child.tagName = "p" -> "PARAGRAPH"
         [] child.tagName \in HeadingTags -> "HEADING"
         [] child.tagName = "ul" -> "BULLETED_LIST"
         [] child.tagName = "ol" -> "ORDERED_LIST"
         [] OTHER -> "any"

\* what the div loop of the Block Dispatcher pushes for one child holds a
\* node of the stated type (for a stray text child: is one Paragraph)
YieldsStated(child) ==
  LET pushed == DivChildren(<<child>>)
  IN  /\ StatedType(child) # "any" =>
           \E k \in 1..Len(pushed) : pushed[k].type = StatedType(child)
      /\ child.nodeType = 3 => Len(pushed) = 1

\* C15: when the Block Dispatcher handles a div that has at least one
\* block-tag child, every element child of the div is itself dispatched: a
\* p child yields a Paragraph node, an hN child a Heading node, a ul/ol child
\* a List node, and every stray non-blank text child its own Paragraph, all
\* in source order (the nodes of the children follow one another in the
\* dispatcher's output as DivChildren concatenates them).
C15_DivChildrenDispatched ==
  Answered =>
    \A i \in 1..Len(DispatchedDivs) :
      LET div == DispatchedDivs[i].el IN
      HasBlockChildren(div) =>
        \A k \in 1..Len(div.childNodes) :
          (div.childNodes[k].nodeType = 1
             \/ NonBlank(div.childNodes[k].textContent))
            => YieldsStated(div.childNodes[k])

\* the container nodes of the Document, at every nesting level
ContainerTypes ==
  {"BULLETED_LIST", "ORDERED_LIST", "LIST_ITEM", "BLOCKQUOTE", "PARAGRAPH"}

Containers ==
  SelectSeq(Flatten(Document.nodes),
            LAMBDA n : n.type \in ContainerTypes /\ "nodes" \in DOMAIN n)

\* seq starts or ends with a spacing node
SpacingAtEnds(seq) ==
  seq # <<>> /\ (SpacingNode(seq[1]) \/ SpacingNode(seq[Len(seq)]))

\* C16: at every nesting level of the final Document, no child sequence of
\* a container node (List, ListItem, Blockquote, Paragraph) holds two
\* spacing nodes at adjacent positions, and none starts or ends with a
\* spacing node.
C16_NestedSpacing ==
  Answered =>
    \A k \in 1..Len(Containers) :
      /\ ~AdjacentSpacing(Containers[k].nodes)
      /\ ~SpacingAtEnds(Containers[k].nodes)

\* the elements of the body whose children the Inline Processor runs over
InlineParentTags ==
  HeadingTags \cup {"p", "li", "blockquote", "th", "td", "span", "a"}

InlineParents == querySelectorAll(req.html.body, InlineParentTags)

\* the nodes the Inline Processor returns for the children i..j of element
InlineOf(element, i, j) ==
  InlineLoop(SubSeq(element.childNodes, i, j), processNodeStyle(element))

WhitespaceOnly(text) == \A k \in 1..Len(text) : text[k] \in WS

\* the returned sequence is, for every cut of the children into c1.. and
\* ..c2, the nodes of the children before the cut followed by the nodes of
\* the children after it
OrderPreserved(element) ==
  LET n == Len(element.childNodes)
  IN  \A k \in 0..n :
        processTextAndInlineElements(element)
          = InlineOf(element, 1, k) \o InlineOf(element, k + 1, n)

\* C17: the Inline Processor preserves order: for any element, if child c1
\* precedes child c2 in the source, every node produced from c1 (nodes
\* spliced in from Block Dispatcher delegation included) precedes every
\* node produced from c2 in the returned sequence, and a direct text child
\* produces no node exactly when it is whitespace-only.
C17_InlineOrder ==
  Answered =>
    \A i \in 1..Len(InlineParents) :
      LET element == InlineParents[i] IN
      /\ OrderPreserved(element)
      /\ \A k \in 1..Len(element.childNodes) :
           element.childNodes[k].nodeType = 3 =>
             (InlineOf(element, k, k) = <<>>
                <=> WhitespaceOnly(element.childNodes[k].textContent))

\* an element with a whitespace-only text child between children that
\* produce nodes, and an element with a child delegated to the Block
\* Dispatcher after a text child, have been converted
C17_Witness ==
  /\ Answered
  /\ \E i \in 1..Len(InlineParents) :
       LET c == InlineParents[i].childNodes IN
       /\ \E k \in 2..(Len(c) - 1) :
            c[k].nodeType = 3 /\ WhitespaceOnly(c[k].textContent)
       /\ Len(InlineOf(InlineParents[i], 1, Len(c))) >= 2
  /\ \E i \in 1..Len(InlineParents) :
       LET c == InlineParents[i].childNodes IN
       /\ Len(c) = 2
       /\ c[1].nodeType = 3 /\ c[2].nodeType = 1
       /\ c[2].tagName \in InlineBlockTags
       /\ Len(InlineOf(InlineParents[i], 1, 2)) >= 2

\* the subsequence of the non-spacing nodes of seq
NonSpacing(seq) == SelectSeq(seq, LAMBDA n : ~SpacingNode(n))

\* C18: the Spacing Normalizer changes only spacing nodes: the subsequence
\* of non-spacing nodes of the returned Document.nodes is identical (same
\* nodes, same order, none dropped, duplicated or modified) to the
\* subsequence of non-spacing nodes of the Tree Walker's output.
C18_OnlySpacingChanged ==
  Answered => NonSpacing(Document.nodes) = NonSpacing(nodes)

\* the normalizer has changed the spacing of a sequence that holds at least
\* two other nodes
C18_Witness ==
  /\ Answered
  /\ Document.nodes # nodes
  /\ Len(NonSpacing(nodes)) >= 2
  /\ AdjacentSpacing(nodes)

\* C18 for any sequence handed to the normalizer
C18_AnySequence ==
  pc = "responded" => NonSpacing(Document.nodes) = NonSpacing(nodes)

\* the Table nodes of the Document
Tables == OfType(Document.nodes, "TABLE")

\* cols has one entry per column of the widest row of rows
WidestRow(cols, rows) ==
  /\ \A r \in 1..Len(rows) : Len(rows[r].nodes) <= Len(cols)
  /\ IF rows = <<>> THEN cols = <<>>
     ELSE \E r \in 1..Len(rows) : Len(rows[r].nodes) = Len(cols)

\* a TableCell with exactly one child, a Paragraph with at least one child
WellFormedCell(cell) ==
  /\ cell.type = "TABLE_CELL"
  /\ Len(cell.nodes) = 1
  /\ cell.nodes[1].type = "PARAGRAPH"
  /\ Len(cell.nodes[1].nodes) >= 1

WellFormedTable(t) ==
  LET d == t.tableData.dimensions IN
  /\ Len(d.rowsHeight) = Len(t.nodes)
  /\ WidestRow(d.colsWidthRatio, t.nodes)
  /\ WidestRow(d.colsMinWidth, t.nodes)
  /\ \A r \in 1..Len(t.nodes) :
       /\ t.nodes[r].type = "TABLE_ROW"
       /\ Len(t.nodes[r].nodes) >= 1
       /\ \A c \in 1..Len(t.nodes[r].nodes) : WellFormedCell(t.nodes[r].nodes[c])

\* child i of the body is a table element without tr descendants
RowlessTable(i) ==
  /\ bodyKids[i].nodeType = 1
  /\ bodyKids[i].tagName = "table"
  /\ Descendants(bodyKids[i], {"tr"}) = <<>>

\* C19: for every Table node emitted by the Table Builder, the length of
\* dimensions.rowsHeight equals the number of its TableRow children, the
\* lengths of dimensions.colsWidthRatio and dimensions.colsMinWidth both
\* equal the maximum number of TableCell children over its rows, every
\* TableRow has at least one TableCell, and every TableCell has exactly one
\* child, a Paragraph with at least one child; a table element with no tr
\* descendants yields a single spacing Paragraph instead (here: the node
\* the walker emits for such a child of the body is a spacing node, and
\* the Document holds one Table per other table child).
C19_TableShape ==
  Answered =>
    /\ \A k \in 1..Len(Tables) : WellFormedTable(Tables[k])
    /\ \A i \in 1..Len(bodyKids) :
         RowlessTable(i) =>
           /\ handleTable(bodyKids[i]) = createSpacingParagraph
           /\ SpacingNode(nodes[Len(WalkStateBefore(i).nodes) + 1])
    /\ Len(SelectSeq(nodes, LAMBDA n : n.type = "TABLE"))
         = Len(SelectSeq(bodyKids, LAMBDA c :
                 c.nodeType = 1 /\ c.tagName = "table"
                 /\ Descendants(c, {"tr"}) # <<>>))

\* a Table whose rows differ in their number of cells and a Table one of
\* whose cells holds the fallback Text leaf have been emitted, next to a
\* table element without rows
C19_Witness ==
  /\ Answered
  /\ \E i \in 1..Len(bodyKids) : RowlessTable(i)
  /\ \E k \in 1..Len(Tables) :
       \/ \E r1, r2 \in 1..Len(Tables[k].nodes) :
            Len(Tables[k].nodes[r1].nodes) # Len(Tables[k].nodes[r2].nodes)
       \/ \E r \in 1..Len(Tables[k].nodes) :
            \E c \in 1..Len(Tables[k].nodes[r].nodes) :
              Tables[k].nodes[r].nodes[c].nodes[1].nodes[1].textData.text = <<>>

=============================================================================
